---- MODULE Spec2Model ----
(***************************************************************************)
(* Word search solvers: the index-based WordSearchSolver of                *)
(* word_search_solver.py and the naive solve_puzzle of                     *)
(* simple_word_search_solver.py.                                           *)
(*                                                                         *)
(* A character is a one-character string, a word or a grid row is a        *)
(* sequence of characters, a grid is a sequence of rows.  A Python dict is *)
(* a function whose DOMAIN is its key set.  Coordinates are 0-based, as in *)
(* the code: <<y, x>> in the index, <<x, y>> in the results.               *)
(***************************************************************************)
EXTENDS Integers, Sequences, FiniteSets

\* ---------------------------------------------------------------- bounds
MaxCells == 4        \* a grid file holds at most this many cells
MaxWordLen == 3      \* a word passed to check_for_word_in_direction
MaxKeyFileChars == 4 \* size of the key file: each line counts its length + 1
MaxSolves == 2       \* calls of solve_puzzle on one solver
MaxAnyOrderCells == 2 \* cells of the grid file while pairs run in any order

GridLetters == {"A", "B"}
WordLetters == {"A", "B", "a", " "}

\* str.upper() on one character
Upper(ch) == IF ch = "a" THEN "A" ELSE IF ch = "b" THEN "B" ELSE ch

RECURSIVE UpperWord(_)
UpperWord(word) ==
    IF word = <<>> THEN <<>> ELSE <<Upper(Head(word))>> \o UpperWord(Tail(word))

\* the shapes of a rectangular, non-empty grid of at most MaxCells cells
Dims == {d \in (1..MaxCells) \X (1..MaxCells) : d[1] * d[2] <= MaxCells}

Grids == UNION { [1..d[1] -> [1..d[2] -> GridLetters]] : d \in Dims }

WordsOfLen(n) == [1..n -> WordLetters]

Words == UNION { WordsOfLen(n) : n \in 0..MaxWordLen }

\* the key files of at most n characters, a line counting its length + 1
RECURSIVE KeyFilesOfSize(_)
KeyFilesOfSize(n) ==
    {<<>>} \cup
    UNION { {<<w>> \o rest : rest \in KeyFilesOfSize(n - Len(w) - 1)} :
            w \in UNION { WordsOfLen(l) : l \in 0..(n - 1) } }

KeyFiles == KeyFilesOfSize(MaxKeyFileChars)

\* ------------------------------------------------------------ directions
\* a sign slip in one vector: diagonal up right steps down instead
directions_sign_slip ==
    [LR  |-> <<0, 1>>,  RL  |-> <<0, -1>>, U   |-> <<-1, 0>>, D   |-> <<1, 0>>,
     DUL |-> <<-1, -1>>, DUR |-> <<1, 1>>, DDL |-> <<1, -1>>, DDR |-> <<1, 1>>]

directions ==
    [LR  |-> <<0, 1>>,  RL  |-> <<0, -1>>, U   |-> <<-1, 0>>, D   |-> <<1, 0>>,
     DUL |-> <<-1, -1>>, DUR |-> <<-1, 1>>, DDL |-> <<1, -1>>, DDR |-> <<1, 1>>]

\* the order in which the dict of directions is iterated
direction_keys == <<"LR", "RL", "U", "D", "DUL", "DUR", "DDL", "DDR">>

DirectionNames == {direction_keys[i] : i \in 1..Len(direction_keys)}

\* ----------------------------------------------------------------- dicts
EmptyDict == [k \in {} |-> <<>>]

Put(d, k, v) == [j \in (DOMAIN d) \cup {k} |-> IF j = k THEN v ELSE d[j]]

\* collections.defaultdict(list).__getitem__: a missing key is inserted
\* with an empty list before it is returned
Missing(d, k) == IF k \in DOMAIN d THEN d ELSE Put(d, k, <<>>)

\* collections.defaultdict(dict).__getitem__: the same with an empty dict
MissingDict(d, k) == IF k \in DOMAIN d THEN d ELSE Put(d, k, EmptyDict)

InList(e, s) == \E i \in 1..Len(s) : s[i] = e

\* ------------------------------------------- build_dictionary_of_coordinates
\* the coordinates stored as (x, y) instead of (y, x)
RECURSIVE append_cells_xy(_, _, _)
append_cells_xy(grid_rows, n, start) ==
    IF n = 0 THEN start
    ELSE LET width == Len(grid_rows[1])
             y_coordinate == (n - 1) \div width
             x_coordinate == (n - 1) % width
             key == grid_rows[y_coordinate + 1][x_coordinate + 1]
             with_key == Missing(append_cells_xy(grid_rows, n - 1, start), key)
         IN  Put(with_key, key,
                 Append(with_key[key], <<x_coordinate, y_coordinate>>))

\* The index after the first n cells of the two nested enumerate loops,
\* starting from the dict start.
RECURSIVE append_cells(_, _, _)
append_cells(grid_rows, n, start) ==
    IF n = 0 THEN start
    ELSE LET width == Len(grid_rows[1])
             y_coordinate == (n - 1) \div width
             x_coordinate == (n - 1) % width
             key == grid_rows[y_coordinate + 1][x_coordinate + 1]
             coords == <<y_coordinate, x_coordinate>>
             with_key == Missing(append_cells(grid_rows, n - 1, start), key)
         IN  Put(with_key, key, Append(with_key[key], coords))

\* the loops append to what self.coordinates held before the call
build_without_reset(old_coordinates, grid_rows) ==
    IF grid_rows = <<>> THEN old_coordinates
    ELSE append_cells(grid_rows, Len(grid_rows) * Len(grid_rows[1]),
                      old_coordinates)

\* self.coordinates is replaced by a fresh defaultdict(list), whatever it held
build_dictionary_of_coordinates(old_coordinates, grid_rows) ==
    IF grid_rows = <<>> THEN EmptyDict
    ELSE append_cells(grid_rows, Len(grid_rows) * Len(grid_rows[1]), EmptyDict)

\* ----------------------------------------------- check_for_word_in_direction
\* a walk in which a space consumes a grid cell
RECURSIVE walk_letters_space_steps(_, _, _, _)
walk_letters_space_steps(word, i, st, direction) ==
    IF i > Len(word) THEN st
    ELSE LET each_letter == word[i]
             letter_as_key == Upper(each_letter)
             looked_up == Missing(st.coordinates, letter_as_key)
             stepped == [st EXCEPT !.y = @ + directions[direction][1],
                                   !.x = @ + directions[direction][2]]
         IN  IF ~st.letters_match
             THEN walk_letters_space_steps(word, i + 1, st, direction)
             ELSE IF each_letter = " "
             THEN walk_letters_space_steps(word, i + 1, stepped, direction)
             ELSE IF InList(<<st.y, st.x>>, looked_up[letter_as_key])
                  THEN walk_letters_space_steps(word, i + 1,
                           [stepped EXCEPT !.coordinates = looked_up], direction)
                  ELSE walk_letters_space_steps(word, i + 1,
                           [st EXCEPT !.letters_match = FALSE,
                                      !.coordinates = looked_up], direction)

\* a walk that wraps around the edges of the grid the index was built from
IndexCells(coords) ==
    UNION { {coords[k][i] : i \in 1..Len(coords[k])} : k \in DOMAIN coords }

Extent(coords, axis) ==
    1 + (CHOOSE m \in {cell[axis] : cell \in IndexCells(coords)} :
             \A cell \in IndexCells(coords) : cell[axis] <= m)

RECURSIVE walk_letters_wrapping(_, _, _, _)
walk_letters_wrapping(word, i, st, direction) ==
    IF i > Len(word) THEN st
    ELSE LET each_letter == word[i]
             letter_as_key == Upper(each_letter)
             looked_up == Missing(st.coordinates, letter_as_key)
             wrapped == <<st.y % Extent(st.coordinates, 1),
                          st.x % Extent(st.coordinates, 2)>>
         IN  IF ~st.letters_match \/ each_letter = " "
             THEN walk_letters_wrapping(word, i + 1, st, direction)
             ELSE IF InList(wrapped, looked_up[letter_as_key])
                  THEN walk_letters_wrapping(word, i + 1,
                           [y |-> st.y + directions[direction][1],
                            x |-> st.x + directions[direction][2],
                            letters_match |-> TRUE,
                            coordinates |-> looked_up], direction)
                  ELSE walk_letters_wrapping(word, i + 1,
                           [st EXCEPT !.letters_match = FALSE,
                                      !.coordinates = looked_up], direction)

\* The inner loop over the letters of the word, from one location of the
\* first letter.  st = [y, x, letters_match, coordinates].
RECURSIVE walk_letters(_, _, _, _)
walk_letters(word, i, st, direction) ==
    IF i > Len(word) THEN st
    ELSE LET each_letter == word[i]
             letter_as_key == Upper(each_letter)
             looked_up == Missing(st.coordinates, letter_as_key)
             all_coords_of_this_letter == looked_up[letter_as_key]
         IN  IF ~st.letters_match THEN walk_letters(word, i + 1, st, direction)
             ELSE IF each_letter = " " THEN walk_letters(word, i + 1, st, direction)
             ELSE IF InList(<<st.y, st.x>>, all_coords_of_this_letter)
                  THEN walk_letters(word, i + 1,
                           [y |-> st.y + directions[direction][1],
                            x |-> st.x + directions[direction][2],
                            letters_match |-> TRUE,
                            coordinates |-> looked_up], direction)
                  ELSE walk_letters(word, i + 1,
                           [y |-> st.y, x |-> st.x,
                            letters_match |-> FALSE,
                            coordinates |-> looked_up], direction)

\* The outer loop over the locations of the first letter.
\* acc = [results_list, coordinates].
RECURSIVE scan_locations(_, _, _, _, _)
scan_locations(word, locations_for_first_letter, j, acc, direction) ==
    IF j > Len(locations_for_first_letter) THEN acc
    ELSE LET each_location == locations_for_first_letter[j]
             initial_y == each_location[1]
             initial_x == each_location[2]
             walked == walk_letters(word, 1,
                           [y |-> initial_y, x |-> initial_x,
                            letters_match |-> TRUE,
                            coordinates |-> acc.coordinates], direction)
             word_location == <<initial_x, initial_y>>
         IN  scan_locations(word, locations_for_first_letter, j + 1,
                 [results_list |-> IF walked.letters_match
                                   THEN Append(acc.results_list, word_location)
                                   ELSE acc.results_list,
                  coordinates |-> walked.coordinates], direction)

\* an off-by-one over the locations of the first letter: the first is skipped
check_skipping_first_location(coords, word, direction) ==
    IF word = <<>>
    THEN [raised |-> "IndexError", results_list |-> <<>>, coordinates |-> coords]
    ELSE LET looked_up == Missing(coords, word[1])
             done == scan_locations(word, looked_up[word[1]], 2,
                         [results_list |-> <<>>, coordinates |-> looked_up],
                         direction)
         IN  [raised |-> "none", results_list |-> done.results_list,
              coordinates |-> done.coordinates]

\* the starts that matched are taken out of the index, as if used up
check_consuming_starts(coords, word, direction) ==
    IF word = <<>>
    THEN [raised |-> "IndexError", results_list |-> <<>>, coordinates |-> coords]
    ELSE LET first_letter == word[1]
             looked_up == Missing(coords, first_letter)
             done == scan_locations(word, looked_up[first_letter], 1,
                         [results_list |-> <<>>, coordinates |-> looked_up],
                         direction)
         IN  [raised |-> "none", results_list |-> done.results_list,
              coordinates |->
                  Put(done.coordinates, first_letter,
                      SelectSeq(done.coordinates[first_letter],
                          LAMBDA loc : ~InList(<<loc[2], loc[1]>>,
                                               done.results_list)))]

\* The call: what it raises, what it returns and the index it leaves behind.
check_for_word_in_direction(coords, word, direction) ==
    IF word = <<>>
    THEN [raised |-> "IndexError", results_list |-> <<>>, coordinates |-> coords]
    ELSE LET first_letter == word[1]
             looked_up == Missing(coords, first_letter)
             done == scan_locations(word, looked_up[first_letter], 1,
                         [results_list |-> <<>>, coordinates |-> looked_up],
                         direction)
         IN  [raised |-> "none", results_list |-> done.results_list,
              coordinates |-> done.coordinates]

\* -------------------------------------------- WordSearchSolver.solve_puzzle
\* acc = [raised, found_words, coordinates] threads the Result Map and the
\* index through the two nested loops; an error raised by a call ends both.

\* the inner loop without its "if results:" test
RECURSIVE search_directions_unguarded(_, _, _)
search_directions_unguarded(word, m, acc) ==
    IF m = 0 THEN acc
    ELSE LET before == search_directions_unguarded(word, m - 1, acc)
             direction == direction_keys[m]
             call == check_for_word_in_direction(before.coordinates, word,
                                                 direction)
             inner == MissingDict(before.found_words, word)[word]
         IN  IF before.raised # "none" THEN before
             ELSE IF call.raised # "none"
             THEN [raised |-> call.raised,
                   found_words |-> before.found_words,
                   coordinates |-> call.coordinates]
             ELSE [raised |-> "none",
                   found_words |-> Put(before.found_words, word,
                                       Put(inner, direction, call.results_list)),
                   coordinates |-> call.coordinates]

\* The inner loop: the state after the first m directions for one word.
RECURSIVE search_directions(_, _, _)
search_directions(word, m, acc) ==
    IF m = 0 THEN acc
    ELSE LET before == search_directions(word, m - 1, acc)
             direction == direction_keys[m]
             call == check_for_word_in_direction(before.coordinates, word,
                                                 direction)
             results == call.results_list
             inner == MissingDict(before.found_words, word)[word]
         IN  IF before.raised # "none" THEN before
             ELSE IF call.raised # "none"
             THEN [raised |-> call.raised,
                   found_words |-> before.found_words,
                   coordinates |-> call.coordinates]
             ELSE [raised |-> "none",
                   found_words |-> IF results # <<>>
                                   THEN Put(before.found_words, word,
                                            Put(inner, direction, results))
                                   ELSE before.found_words,
                   coordinates |-> call.coordinates]

\* The outer loop: the state after the first k words of self.keys.
RECURSIVE search_words(_, _, _)
search_words(key_list, k, acc) ==
    IF k = 0 THEN acc
    ELSE LET before == search_words(key_list, k - 1, acc)
         IN  IF before.raised # "none" THEN before
             ELSE search_directions(key_list[k], Len(direction_keys), before)

solve_puzzle(old_coordinates, grid_rows, key_list) ==
    search_words(key_list, Len(key_list),
        [raised |-> "none",
         found_words |-> EmptyDict,
         coordinates |-> build_dictionary_of_coordinates(old_coordinates,
                                                         grid_rows)])

\* The body of the two loops for one (word, direction) pair, from any state
\* of the Result Map and of the index.
search_pair(acc, word, direction) ==
    LET call == check_for_word_in_direction(acc.coordinates, word, direction)
        results == call.results_list
        inner == MissingDict(acc.found_words, word)[word]
    IN  IF call.raised # "none"
        THEN [raised |-> call.raised,
              found_words |-> acc.found_words,
              coordinates |-> call.coordinates]
        ELSE [raised |-> "none",
              found_words |-> IF results # <<>>
                              THEN Put(acc.found_words, word,
                                       Put(inner, direction, results))
                              ELSE acc.found_words,
              coordinates |-> call.coordinates]

\* ------------------------------- simple_word_search_solver.solve_puzzle
DIRECTIONS == directions

\* The loop over the letters of the uppercased word from one tile.
\* st = [this_step_y, this_step_x, word_is_not_here].
RECURSIVE step_letters(_, _, _, _, _)
step_letters(graph, each_word_upper, i, st, each_direction) ==
    IF i > Len(each_word_upper) THEN st
    ELSE LET each_letter == each_word_upper[i]
             graph_height == Len(graph)
             graph_width == Len(graph[1])
             bottom == st.this_step_y >= graph_height
             top == st.this_step_y < 0
             right == st.this_step_x >= graph_width
             left == st.this_step_x < 0
             out_of_bounds == bottom \/ right \/ left \/ top
         IN  IF out_of_bounds
             THEN step_letters(graph, each_word_upper, i + 1,
                      [st EXCEPT !.word_is_not_here = TRUE], each_direction)
             ELSE IF each_letter = " "
             THEN step_letters(graph, each_word_upper, i + 1, st, each_direction)
             ELSE IF graph[st.this_step_y + 1][st.this_step_x + 1] = each_letter
             THEN step_letters(graph, each_word_upper, i + 1,
                      [st EXCEPT
                          !.this_step_y = @ + DIRECTIONS[each_direction][1],
                          !.this_step_x = @ + DIRECTIONS[each_direction][2]],
                      each_direction)
             ELSE step_letters(graph, each_word_upper, i + 1,
                      [st EXCEPT !.word_is_not_here = TRUE], each_direction)

\* The loops for one word read and write results[each_word] only: entry is
\* [present, inner], whether each_word is a key of results and, if so, its
\* inner dict.
\* try: results[each_word][each_direction].append(coords)
\* except KeyError: results[each_word] = {each_direction: [coords]}
record_match(entry, each_direction, coords) ==
    IF entry.present /\ each_direction \in DOMAIN entry.inner
    THEN [present |-> TRUE,
          inner |-> Put(entry.inner, each_direction,
                        Append(entry.inner[each_direction], coords))]
    ELSE [present |-> TRUE,
          inner |-> Put(EmptyDict, each_direction, <<coords>>)]

\* The loops over rows, columns and directions for one word, flattened:
\* tile step n is row n \div (width * 8), column (n \div 8) % width and
\* direction n % 8.
tile_row(graph, n) == n \div (Len(graph[1]) * Len(direction_keys))

tile_column(graph, n) == (n \div Len(direction_keys)) % Len(graph[1])

tile_direction(n) == direction_keys[(n % Len(direction_keys)) + 1]

\* word_is_not_here is False after the loop over the letters at tile step n
word_is_here(graph, each_word_upper, n) ==
    ~step_letters(graph, each_word_upper, 1,
         [this_step_y |-> tile_row(graph, n),
          this_step_x |-> tile_column(graph, n),
          word_is_not_here |-> FALSE], tile_direction(n)).word_is_not_here

\* the tile steps at which the word is recorded, in loop order
matching_steps(graph, each_word_upper) ==
    SelectSeq([i \in 1..(Len(graph) * Len(graph[1]) * Len(direction_keys))
                   |-> i - 1],
              LAMBDA n : word_is_here(graph, each_word_upper, n))

\* results[each_word] after the first m of them have been recorded
RECURSIVE record_matches(_, _, _, _)
record_matches(graph, steps, m, entry) ==
    IF m = 0 THEN entry
    ELSE record_match(record_matches(graph, steps, m - 1, entry),
                      tile_direction(steps[m]),
                      <<tile_column(graph, steps[m]), tile_row(graph, steps[m])>>)

\* results after the first k words; a word that is no key after its loops
\* gets an empty dict
RECURSIVE simple_words(_, _, _)
simple_words(words, graph, k) ==
    IF k = 0 THEN EmptyDict
    ELSE LET results == simple_words(words, graph, k - 1)
             each_word == words[k]
             steps == matching_steps(graph, UpperWord(each_word))
             entry == IF each_word \in DOMAIN results
                      THEN [present |-> TRUE, inner |-> results[each_word]]
                      ELSE [present |-> FALSE, inner |-> EmptyDict]
             scanned == record_matches(graph, steps, Len(steps), entry)
         IN  Put(results, each_word,
                 IF scanned.present THEN scanned.inner ELSE EmptyDict)

simple_solve_puzzle(words, graph) == simple_words(words, graph, Len(words))

\* ------------------------------------------------------------------ state
VARIABLES
    grid_file,       \* the lines of the file at grid_file_path
    key_file,        \* the lines of the file at key_file_path
    grid,            \* self.grid
    keys,            \* self.keys
    coordinates,     \* self.coordinates
    built,           \* self.coordinates is the defaultdict of a build
    last_op,         \* the operation that ran last
    outcome,         \* "returned", or the error it raised
    found_words,     \* the Result Map of the last solve_puzzle that returned
    returned,        \* what each solve_puzzle call on this solver produced
    simple_results,  \* the Result Map of the naive solve_puzzle
    simple_ran       \* the naive solve_puzzle has run on the two files

vars == <<grid_file, key_file, grid, keys, coordinates, built, last_op,
          outcome, found_words, returned, simple_results, simple_ran>>

\* WordSearchSolver.__init__, with the two files in place
Constructed ==
    /\ grid = <<>>
    /\ keys = <<>>
    /\ coordinates = EmptyDict
    /\ built = FALSE
    /\ last_op = "init"
    /\ outcome = "returned"
    /\ found_words = EmptyDict
    /\ returned = <<>>
    /\ simple_results = EmptyDict
    /\ simple_ran = FALSE

Init ==
    /\ grid_file \in Grids
    /\ key_file = <<>>
    /\ Constructed

InitSolve ==
    /\ grid_file \in Grids
    /\ key_file \in KeyFiles
    /\ Constructed

BuildDictionaryOfCoordinates ==
    /\ coordinates' = build_dictionary_of_coordinates(coordinates, grid_file)
    /\ built' = TRUE
    /\ last_op' = "build"
    /\ outcome' = "returned"
    /\ UNCHANGED <<grid_file, key_file, grid, keys, found_words, returned,
                   simple_results, simple_ran>>

\* A query of the built index (build, then query: spec section 4.2).
CheckForWordInDirection ==
    /\ built
    /\ \E word \in Words, direction \in DirectionNames :
         \E call \in {check_for_word_in_direction(coordinates, word, direction)} :
             /\ coordinates' = call.coordinates
             /\ outcome' = IF call.raised = "none" THEN "returned"
                           ELSE call.raised
    /\ last_op' = "check"
    /\ UNCHANGED <<grid_file, key_file, grid, keys, built, found_words,
                   returned, simple_results, simple_ran>>

SolvePuzzle ==
    /\ Len(returned) < MaxSolves
    /\ \E run \in {solve_puzzle(coordinates, grid_file, key_file)} :
           /\ coordinates' = run.coordinates
           /\ outcome' = IF run.raised = "none" THEN "returned" ELSE run.raised
           /\ found_words' = IF run.raised = "none" THEN run.found_words
                             ELSE found_words
           /\ returned' = Append(returned,
                  IF run.raised = "none"
                  THEN [raised |-> "none", found_words |-> run.found_words]
                  ELSE [raised |-> run.raised, found_words |-> EmptyDict])
    /\ grid' = grid_file
    /\ keys' = key_file
    /\ built' = TRUE
    /\ last_op' = "solve"
    /\ UNCHANGED <<grid_file, key_file, simple_results, simple_ran>>

SimpleSolvePuzzle ==
    /\ simple_results' = simple_solve_puzzle(key_file, grid_file)
    /\ simple_ran' = TRUE
    /\ last_op' = "simple"
    /\ outcome' = "returned"
    /\ UNCHANGED <<grid_file, key_file, grid, keys, coordinates, built,
                   found_words, returned>>

Next == BuildDictionaryOfCoordinates \/ CheckForWordInDirection

Spec == Init /\ [][Next]_vars

NextSolve == SolvePuzzle \/ SimpleSolvePuzzle

SpecSolve == InitSolve /\ [][NextSolve]_vars

\* The start of solve_puzzle: the two files are loaded, the index is built
\* and the Result Map is empty.
StartSearches ==
    /\ ~built
    /\ grid' = grid_file
    /\ keys' = key_file
    /\ coordinates' = build_dictionary_of_coordinates(coordinates, grid_file)
    /\ found_words' = EmptyDict
    /\ built' = TRUE
    /\ last_op' = "start"
    /\ outcome' = "returned"
    /\ UNCHANGED <<grid_file, key_file, returned, simple_results, simple_ran>>

\* One (word, direction) pair of the two loops, taken in any order; a pair
\* may be taken again.  An error a search raises ends the run.
SearchPair ==
    /\ built
    /\ last_op \in {"start", "pair"}
    /\ outcome = "returned"
    /\ \E k \in 1..Len(keys), direction \in DirectionNames :
         \E after \in {search_pair([raised |-> "none",
                                    found_words |-> found_words,
                                    coordinates |-> coordinates],
                                   keys[k], direction)} :
             /\ coordinates' = after.coordinates
             /\ found_words' = after.found_words
             /\ outcome' = IF after.raised = "none" THEN "returned"
                           ELSE after.raised
    /\ last_op' = "pair"
    /\ UNCHANGED <<grid_file, key_file, grid, keys, built, returned,
                   simple_results, simple_ran>>

\* The pairs multiply the states, so the grid files are the smaller ones.
InitAnyOrder ==
    /\ grid_file \in {g \in Grids : Len(g) * Len(g[1]) <= MaxAnyOrderCells}
    /\ key_file \in KeyFiles
    /\ Constructed

NextAnyOrder == StartSearches \/ SearchPair

SpecAnyOrder == InitAnyOrder /\ [][NextAnyOrder]_vars

\* solve_puzzle called again and again on one solver
NextRepeat == SolvePuzzle

SpecRepeat == InitSolve /\ [][NextRepeat]_vars

\* ------------------------------------------------- what the claims speak of
NonSpace(word) == SelectSeq(word, LAMBDA ch : ch # " ")

\* the step of a direction: up is towards row 0, left towards column 0
DeltaRow(direction) ==
    IF direction \in {"U", "DUL", "DUR"} THEN -1
    ELSE IF direction \in {"D", "DDL", "DDR"} THEN 1 ELSE 0

DeltaColumn(direction) ==
    IF direction \in {"RL", "DUL", "DDL"} THEN -1
    ELSE IF direction \in {"LR", "DUR", "DDR"} THEN 1 ELSE 0

InGrid(g, r, c) == r >= 0 /\ r < Len(g) /\ c >= 0 /\ c < Len(g[1])

\* Reading the non-space characters of the word one per cell from row r,
\* column c of grid g in the given direction stays inside g and finds the
\* uppercased characters.
Spells(g, word, r, c, direction) ==
    LET letters == NonSpace(word)
        dy == DeltaRow(direction)
        dx == DeltaColumn(direction)
    IN  \A i \in 1..Len(letters) :
            /\ InGrid(g, r + (i - 1) * dy, c + (i - 1) * dx)
            /\ g[r + (i - 1) * dy + 1][c + (i - 1) * dx + 1] = Upper(letters[i])

UppercaseWords == {w \in Words : w # <<>> /\ \A i \in 1..Len(w) : w[i] \in GridLetters}

Queried == built /\ last_op = "check" /\ outcome = "returned"

\* C2 (soundness): every coordinate <<c, r>> that check_for_word_in_direction
\* returns for a word and a direction is a start in (column, row) order from
\* which the non-space characters of the word are read, in that direction,
\* inside the grid.
C2_Soundness ==
    built =>
        \A word \in Words, direction \in DirectionNames :
            LET call == check_for_word_in_direction(coordinates, word, direction)
            IN  call.raised = "none" =>
                    \A k \in 1..Len(call.results_list) :
                        Spells(grid_file, word, call.results_list[k][2],
                               call.results_list[k][1], direction)

\* a two-letter word is returned at a start off the main diagonal, going
\* diagonally up and to the right
C2_Witness ==
    /\ Queried
    /\ \E word \in Words :
          LET call == check_for_word_in_direction(coordinates, word, "DUR")
          IN  /\ Len(NonSpace(word)) >= 2
              /\ \E k \in 1..Len(call.results_list) :
                     call.results_list[k][1] # call.results_list[k][2]

\* C3 (completeness): every start from which a non-empty, space-free,
\* uppercase word is spelled inside the grid in a direction is among the
\* coordinates check_for_word_in_direction returns, as <<column, row>>.
C3_Completeness ==
    built =>
        \A word \in UppercaseWords, direction \in DirectionNames :
            \A r \in 0..(Len(grid_file) - 1), c \in 0..(Len(grid_file[1]) - 1) :
                Spells(grid_file, word, r, c, direction) =>
                    InList(<<c, r>>,
                           check_for_word_in_direction(coordinates, word,
                                                       direction).results_list)

\* a word of two letters is spelled from two different starts in one direction
C3_Witness ==
    /\ Queried
    /\ \E word \in UppercaseWords, direction \in DirectionNames :
          /\ Len(word) >= 2
          /\ Cardinality({rc \in (0..(Len(grid_file) - 1)) \X
                                  (0..(Len(grid_file[1]) - 1)) :
                             Spells(grid_file, word, rc[1], rc[2], direction)}) >= 2

\* C4 (case-insensitive matching): for a non-empty word,
\* check_for_word_in_direction returns the same list as for the uppercased
\* word, also when the first character is lowercase.
C4_CaseInsensitive ==
    built =>
        \A word \in Words \ {<<>>}, direction \in DirectionNames :
            check_for_word_in_direction(coordinates, word, direction).results_list
            = check_for_word_in_direction(coordinates, UpperWord(word),
                                          direction).results_list

\* C5 (a space is a non-consuming skip): a word that neither begins nor ends
\* with a space gets the list its letters without the spaces get.
C5_SpaceSkip ==
    built =>
        \A word \in Words, direction \in DirectionNames :
            (word # <<>> /\ word[1] # " " /\ word[Len(word)] # " ") =>
                check_for_word_in_direction(coordinates, word,
                                            direction).results_list
                = check_for_word_in_direction(coordinates, NonSpace(word),
                                              direction).results_list

\* a word with a space inside is found
C5_Witness ==
    /\ Queried
    /\ \E word \in Words, direction \in DirectionNames :
          /\ word # <<>> /\ word[1] # " " /\ word[Len(word)] # " "
          /\ NonSpace(word) # word
          /\ check_for_word_in_direction(coordinates, word,
                                         direction).results_list # <<>>

\* C7 (totality): no call of the solver ends in a raised error.
C7_Total == outcome = "returned"

\* C8 (searching leaves the index alone): once built, the index keeps the
\* keys and the coordinate lists the build gave it.
C8_IndexUnchanged ==
    built => coordinates = build_dictionary_of_coordinates(EmptyDict, grid_file)

\* --------------------------------------------- claims about solve_puzzle
KeySet == {key_file[i] : i \in 1..Len(key_file)}

Solved == last_op = "solve" /\ outcome = "returned"

Max(a, b) == IF a >= b THEN a ELSE b

\* result[word] on the returned defaultdict(dict)
InnerMapping(result, word) == MissingDict(result, word)[word]

\* C1 (one key per requested word): when solve_puzzle returns, the keys of
\* the Result Map are exactly the distinct words of the word list, a word
\* found in no direction being present with an empty inner mapping.
C1_EveryWordIsAKey ==
    Solved => DOMAIN found_words = KeySet

\* C6 (the two strategies agree): on the same grid and word list the naive
\* solve_puzzle and WordSearchSolver.solve_puzzle return the same Result Map.
C6_StrategiesAgree ==
    (simple_ran /\ returned # <<>> /\ returned[1].raised = "none") =>
        simple_results = returned[1].found_words

\* C9 (determinism): every call of solve_puzzle on one solver, with the same
\* grid and word list, produces the same Result Map.
C9_Deterministic ==
    \A i \in 1..Len(returned), j \in 1..Len(returned) :
        returned[i] = returned[j]

\* solve_puzzle has returned twice, the first call having found a word and
\* left behind an index with a key for a character that is not in the grid
C9_Witness ==
    /\ Len(returned) >= 2
    /\ returned[1].raised = "none"
    /\ returned[1].found_words # EmptyDict
    /\ DOMAIN coordinates #
           DOMAIN build_dictionary_of_coordinates(EmptyDict, grid_file)

\* C10 (boundary): a word with more non-space characters than the larger
\* side of the grid is returned from no start in any direction, and its
\* inner mapping in the Result Map is empty.
C10_TooLongIsNotFound ==
    Solved =>
        \A word \in KeySet :
            Len(NonSpace(word)) > Max(Len(grid_file), Len(grid_file[1])) =>
                /\ InnerMapping(found_words, word) = EmptyDict
                /\ \A direction \in DirectionNames :
                       check_for_word_in_direction(coordinates, word,
                           direction).results_list = <<>>

\* a word of three letters was searched in a grid of two rows and two
\* columns whose cells hold its letters
C10_Witness ==
    /\ Solved
    /\ Len(grid_file) = 2 /\ Len(grid_file[1]) = 2
    /\ \E word \in KeySet :
          /\ Len(NonSpace(word)) = 3
          /\ \A i \in 1..Len(word) : word[i] = grid_file[1][1]
          /\ \A r \in 1..2, c \in 1..2 : grid_file[r][c] = grid_file[1][1]

\* ------------------------------------------------- claims about the index
AllLetters == GridLetters \cup WordLetters

\* the positions i of the index entry for letter that hold the cell <<y, x>>
EntryPositions(index, letter, y, x) ==
    IF letter \in DOMAIN index
    THEN {i \in 1..Len(index[letter]) : index[letter][i] = <<y, x>>}
    ELSE {}

\* how many times the cell <<y, x>> is stored in the whole index
Occurrences(index, y, x) ==
    LET counts == [letter \in DOMAIN index |->
                       Cardinality(EntryPositions(index, letter, y, x))]
        sum[S \in SUBSET DOMAIN index] ==
            IF S = {} THEN 0
            ELSE LET l == CHOOSE l \in S : TRUE IN counts[l] + sum[S \ {l}]
    IN  sum[DOMAIN index]

\* C11 (index invariant): after the build and after any searches, <<y, x>>
\* is in the entry for letter L exactly when it is a cell of the grid that
\* holds L; every cell of the grid is stored exactly once in the whole
\* index, and no coordinate outside the grid is stored anywhere.  The index
\* built from an empty grid is empty.
C11_IndexInvariant ==
    /\ built =>
          /\ \A letter \in AllLetters :
                 \A y \in (-1)..MaxCells, x \in (-1)..MaxCells :
                     (EntryPositions(coordinates, letter, y, x) # {})
                     <=> (InGrid(grid_file, y, x)
                          /\ grid_file[y + 1][x + 1] = letter)
          /\ DOMAIN coordinates \subseteq AllLetters
          /\ \A y \in 0..(Len(grid_file) - 1), x \in 0..(Len(grid_file[1]) - 1) :
                 Occurrences(coordinates, y, x) = 1
    /\ build_dictionary_of_coordinates(coordinates, <<>>) = EmptyDict

\* searches have added keys to the index of a grid that is not square and
\* holds both letters
C11_Witness ==
    /\ Queried
    /\ Len(grid_file) # Len(grid_file[1])
    /\ \E r \in 1..Len(grid_file), c \in 1..Len(grid_file[1]) :
           grid_file[r][c] # grid_file[1][1]
    /\ DOMAIN coordinates #
           DOMAIN build_dictionary_of_coordinates(EmptyDict, grid_file)

\* ------------------------------------- claims about the naive result map
\* C12 (naive inner mapping): for every word of the key list, every tile
\* step (start cell and direction) at which the naive solver finds the word
\* has its direction as a key of the word's inner mapping, with the start
\* coordinate in that direction's list; a match recorded in one direction
\* leaves the matches recorded in the other directions in place.
C12_EveryMatchIsKept ==
    simple_ran =>
        \A k \in 1..Len(key_file) :
            \A n \in 0..(Len(grid_file) * Len(grid_file[1]) * Len(direction_keys) - 1) :
                word_is_here(grid_file, UpperWord(key_file[k]), n) =>
                    /\ key_file[k] \in DOMAIN simple_results
                    /\ tile_direction(n) \in DOMAIN simple_results[key_file[k]]
                    /\ InList(<<tile_column(grid_file, n), tile_row(grid_file, n)>>,
                              simple_results[key_file[k]][tile_direction(n)])

\* ------------------------------------ claims about the order of the starts
\* the starts <<x, y>> of a list are in strictly ascending row-major order
RowMajor(starts) ==
    \A i \in 1..Len(starts), j \in 1..Len(starts) :
        i < j => \/ starts[i][2] < starts[j][2]
                 \/ /\ starts[i][2] = starts[j][2]
                    /\ starts[i][1] < starts[j][1]

\* C13 (order of the starts, presence of a direction): for every word of the
\* key list and every direction, the list check_for_word_in_direction
\* returns is in row-major order of the grid (ascending row, then ascending
\* column) and holds no start twice; the direction is a key of the word's
\* inner mapping in the Result Map of solve_puzzle exactly when that list is
\* not empty, and then it maps to that list.
C13_RowMajorAndPresence ==
    Solved =>
        \A word \in KeySet, direction \in DirectionNames :
            \A starts \in {check_for_word_in_direction(coordinates, word,
                                                       direction).results_list} :
                /\ RowMajor(starts)
                /\ \A i \in 1..Len(starts), j \in 1..Len(starts) :
                       starts[i] = starts[j] => i = j
                /\ (direction \in DOMAIN InnerMapping(found_words, word))
                   <=> (starts # <<>>)
                /\ (starts # <<>>) => found_words[word][direction] = starts

\* a word found at two starts in some direction and not found in another
C13_Witness ==
    /\ Solved
    /\ \E word \in KeySet, d1 \in DirectionNames, d2 \in DirectionNames :
           /\ word \in DOMAIN found_words
           /\ d1 \in DOMAIN found_words[word]
           /\ d2 \notin DOMAIN found_words[word]
           /\ Len(found_words[word][d1]) >= 2
           /\ found_words[word][d1][1] # found_words[word][d1][2]

\* ------------------------------------ claims about the order of the pairs
\* a Result Map with the entry of one pair set to a list; an empty list
\* leaves the map as it is
WithEntry(result, word, direction, starts) ==
    IF starts = <<>> THEN result
    ELSE Put(result, word,
             Put(IF word \in DOMAIN result THEN result[word] ELSE EmptyDict,
                 direction, starts))

Searching == built /\ last_op \in {"start", "pair"}

\* the list of a pair in a Result Map, empty when the pair has no entry
Entry(result, word, direction) ==
    IF word \in DOMAIN result /\ direction \in DOMAIN result[word]
    THEN result[word][direction]
    ELSE <<>>

\* the number of (word, direction) entries of a Result Map
RECURSIVE Recorded(_)
Recorded(result) ==
    IF DOMAIN result = {} THEN 0
    ELSE LET word == CHOOSE w \in DOMAIN result : TRUE
         IN  Cardinality(DOMAIN result[word])
             + Recorded([w \in DOMAIN result \ {word} |-> result[w]])

\* the Result Map and the index as a search of a pair finds them
Here == [raised |-> "none", found_words |-> found_words,
         coordinates |-> coordinates]

\* every pair has been searched, or might as well have been: the search of
\* no pair would change the Result Map any more.  A run that has taken every
\* pair at least once ends in such a state.
Completed ==
    /\ Searching
    /\ outcome = "returned"
    /\ \A k \in 1..Len(keys), direction \in DirectionNames :
           \A after \in {search_pair(Here, keys[k], direction)} :
               after.raised = "none" /\ after.found_words = found_words

\* C14 (searches are independent): however the pairs have been ordered up
\* to a state, the Result Map has keys of the key list only, and each entry
\* is the non-empty list the search of its pair returns on the freshly
\* built index; the search of any pair
\* from that state changes the Result Map in the entry of its own pair
\* only, to the list the search returns on the freshly built index; and
\* when the run is completed the Result Map is the one the loops of
\* solve_puzzle build in their own order.
C14_OrderIndependent ==
    Searching =>
        \A fresh \in {build_dictionary_of_coordinates(EmptyDict, grid_file)} :
            /\ DOMAIN found_words \subseteq KeySet
            /\ \A word \in DOMAIN found_words :
                   /\ DOMAIN found_words[word] # {}
                   /\ \A direction \in DOMAIN found_words[word] :
                          found_words[word][direction] # <<>>
            /\ \A k \in 1..Len(keys), direction \in DirectionNames :
                   \A alone \in {check_for_word_in_direction(
                                     fresh, keys[k], direction).results_list} :
                       /\ Entry(found_words, keys[k], direction)
                              \in {<<>>, alone}
                       /\ search_pair(Here, keys[k], direction).found_words
                              = WithEntry(found_words, keys[k], direction, alone)
            /\ Completed =>
                   \A in_order \in {search_words(keys, Len(keys),
                                        [raised |-> "none",
                                         found_words |-> EmptyDict,
                                         coordinates |-> fresh])} :
                       /\ in_order.raised = "none"
                       /\ in_order.found_words = found_words

\* a completed run that recorded several pairs and in which a search has
\* added a key to the index
C14_Witness ==
    /\ Completed
    /\ last_op = "pair"
    /\ Recorded(found_words) >= 2
    /\ DOMAIN coordinates #
           DOMAIN build_dictionary_of_coordinates(EmptyDict, grid_file)

====
